---- MODULE Spec2Model ----
(***************************************************************************)
(* Model of the echo-go-templates renderer (templates.go): a registry of   *)
(* compiled html/template units keyed by base filename, three registration *)
(* operations and Render.  The virtual filesystem, the template engine and *)
(* the echo response are modelled by the small operators below.            *)
(***************************************************************************)
EXTENDS Integers, Sequences, FiniteSets, TLC

\* ------------------------------------------------------------------ bounds
MaxCalls == 2      \* registration calls explored in one behaviour
NProcs == 2        \* concurrent Render calls once start-up is over

\* ------------------------------------------------------------ small helpers
Nil == <<>>        \* the nil error

EmptyMap == [n \in {} |-> n]

Put(m, k, v) == [n \in (DOMAIN m) \cup {k} |-> IF n = k THEN v ELSE m[n]]

Lit(s) == [k |-> "lit", v |-> s]
Tmpl(s) == [k |-> "tmpl", v |-> s]
Fn(s) == [k |-> "fn", v |-> s]
Dot == [k |-> "dot", v |-> ""]

Def(n, b) == [name |-> n, body |-> b]

File(p, ok, body, defs) == [path |-> p, ok |-> ok, body |-> body, defs |-> defs]

\* ---------------------------------------------------------- the filesystem
\* The embedded views, in path order (fs.Glob lists a directory sorted by
\* filename).  A path is its sequence of slash-separated elements.  body is
\* the text outside {{define}} blocks, defs the {{define}} blocks in order;
\* ok = FALSE is a file whose template syntax does not parse.
FS ==
  << File(<<"alt", "index.html">>, TRUE, <<Lit("alt"), Fn("getTime2")>>, <<>>),
     File(<<"fragments", "data.html">>, TRUE, <<Lit("data")>>, <<>>),
     File(<<"fragments", "hello.html">>, TRUE, <<Lit("hello"), Dot>>, <<>>),
     File(<<"includes", "footer.html">>, TRUE, <<>>, <<Def("footer", <<Lit("footer")>>)>>),
     File(<<"includes", "header.html">>, TRUE, <<>>, <<Def("header", <<Lit("header")>>)>>),
     File(<<"layout.html">>, TRUE,
          <<Tmpl("header"), Lit("layout"), Tmpl("content"), Tmpl("footer")>>, <<>>),
     File(<<"mixed", "a.html">>, TRUE, <<>>, <<Def("content", <<Lit("a"), Fn("getTime")>>)>>),
     File(<<"mixed", "bad.html">>, FALSE, <<>>, <<>>),
     File(<<"mixed", "index.html">>, TRUE, <<>>, <<Def("content", <<Lit("mixed")>>)>>),
     File(<<"pages", "index.html">>, TRUE, <<>>, <<Def("content", <<Lit("index")>>)>>),
     File(<<"pages", "notes.txt">>, TRUE, <<Lit("notes")>>, <<>>),
     File(<<"shared", "base.html">>, TRUE, <<Lit("base"), Tmpl("content")>>, <<>>) >>

FSPaths == [i \in 1..Len(FS) |-> FS[i].path]

ReadFile(p) == FS[CHOOSE i \in 1..Len(FS) : FS[i].path = p]

HtmlNames == {"index.html", "data.html", "hello.html", "footer.html", "header.html",
              "layout.html", "a.html", "bad.html", "base.html"}

Star == "*.html"
BadPattern == <<"[">>

\* path.Base: the last element of the path, "." for the empty path.
Base(p) == IF Len(p) = 0 THEN "." ELSE p[Len(p)]

MatchElem(pe, e) == IF pe = Star THEN e \in HtmlNames ELSE pe = e

Match(pattern, p) ==
  /\ Len(pattern) = Len(p)
  /\ \A i \in 1..Len(p) : MatchElem(pattern[i], p[i])

Err(msg, arg) == <<[msg |-> msg, arg |-> arg]>>

\* errors.Wrap / errors.Wrapf: a new outermost layer over the cause.
Wrap(err, msg, arg) == Err(msg, arg) \o err

\* fs.Glob: the matching paths in order, or ErrBadPattern.
Glob(pattern) ==
  IF pattern = BadPattern
  THEN [err |-> Err("syntax error in pattern", pattern), list |-> <<>>]
  ELSE [err |-> Nil, list |-> SelectSeq(FSPaths, LAMBDA p : Match(pattern, p))]

NoMatch == "template: pattern matches no files"

RECURSIVE globAllSkip(_, _, _)
globAllSkip(patterns, i, filenames) ==
  IF i > Len(patterns) THEN [err |-> Nil, files |-> filenames]
  ELSE globAllSkip(patterns, i + 1, filenames \o Glob(patterns[i]).list)

\* The loop of readFileNames over the patterns, from the i-th on.
RECURSIVE globAll(_, _, _)
globAll(patterns, i, filenames) ==
  IF i > Len(patterns) THEN [err |-> Nil, files |-> filenames]
  ELSE LET g == Glob(patterns[i]) IN
       IF g.err # Nil
       THEN [err |-> Wrap(g.err, "failed to list using file pattern", <<>>), files |-> <<>>]
       ELSE IF Len(g.list) = 0
       THEN [err |-> Err(NoMatch, patterns[i]), files |-> <<>>]
       ELSE globAll(patterns, i + 1, filenames \o g.list)

readFileNames(patterns) == globAll(patterns, 1, <<>>)

\* ------------------------------------------------------ the template engine
Items(f) == {f.body[i] : i \in 1..Len(f.body)}
             \cup UNION {{f.defs[j].body[i] : i \in 1..Len(f.defs[j].body)} : j \in 1..Len(f.defs)}

FileFns(f) == {it.v : it \in {x \in Items(f) : x.k = "fn"}}

\* text/template associate: a definition replaces one of the same name,
\* except that an empty body never replaces an existing definition.
Assoc(trees, name, body) ==
  IF name \in DOMAIN trees /\ body = <<>> THEN trees ELSE Put(trees, name, body)

RECURSIVE AddDefs(_, _, _)
AddDefs(trees, defs, j) ==
  IF j > Len(defs) THEN trees
  ELSE AddDefs(Assoc(trees, defs[j].name, defs[j].body), defs, j + 1)

\* parseFiles: each file is parsed under its base name into the shared set.
RECURSIVE parseFiles(_, _, _, _)
parseFiles(funcs, filenames, i, trees) ==
  IF i > Len(filenames) THEN [err |-> Nil, trees |-> trees]
  ELSE LET f == ReadFile(filenames[i]) IN
       IF ~f.ok
       THEN [err |-> Err("template: syntax error", f.path), trees |-> EmptyMap]
       ELSE IF ~(FileFns(f) \subseteq funcs)
       THEN [err |-> Err("template: function not defined", f.path), trees |-> EmptyMap]
       ELSE parseFiles(funcs, filenames, i + 1,
                       AddDefs(Assoc(trees, Base(f.path), f.body), f.defs, 1))

RECURSIVE parseGlobs(_, _, _)
parseGlobs(patterns, i, filenames) ==
  IF i > Len(patterns) THEN [err |-> Nil, files |-> filenames]
  ELSE LET g == Glob(patterns[i]) IN
       IF g.err # Nil THEN [err |-> g.err, files |-> <<>>]
       ELSE IF Len(g.list) = 0 THEN [err |-> Err(NoMatch, patterns[i]), files |-> <<>>]
       ELSE parseGlobs(patterns, i + 1, filenames \o g.list)

\* template.New(tname).Funcs(funcs).ParseFS(fsys, patterns...)
ParseFS(funcs, tname, patterns) ==
  LET g == parseGlobs(patterns, 1, <<>>) IN
  IF g.err # Nil THEN [err |-> g.err, tmpl |-> [trees |-> EmptyMap, funcs |-> funcs]]
  ELSE LET r == parseFiles(funcs, g.files, 1, EmptyMap) IN
       [err |-> r.err, tmpl |-> [trees |-> r.trees, funcs |-> funcs]]

Refs(body) == {it.v : it \in {body[i] : i \in {j \in 1..Len(body) : body[j].k = "tmpl"}}}

RECURSIVE Closure(_, _)
Closure(trees, S) ==
  LET S2 == S \cup UNION {Refs(trees[n]) : n \in S \cap DOMAIN trees} IN
  IF S2 = S THEN S ELSE Closure(trees, S2)

\* html/template escapes what it prints.
HTMLEscape(s) == IF s = "<b>" THEN "&lt;b&gt;" ELSE s

RECURSIVE Expand(_, _, _, _, _)
Expand(trees, body, i, data, now) ==
  IF i > Len(body) THEN <<>>
  ELSE LET it == body[i]
           here == CASE it.k = "lit" -> <<it.v>>
                     [] it.k = "dot" -> <<HTMLEscape(data)>>
                     [] it.k = "fn" -> <<now>>
                     [] it.k = "tmpl" -> Expand(trees, trees[it.v], 1, data, now)
       IN here \o Expand(trees, body, i + 1, data, now)

\* (*template.Template).ExecuteTemplate: the set is escaped from the entry
\* point before anything is written, so a missing template yields no output.
ExecuteTemplate(tmpl, execName, data, now) ==
  IF execName \notin DOMAIN tmpl.trees
  THEN [err |-> Err("html/template: template is undefined", <<execName>>), out |-> <<>>]
  ELSE LET missing == Closure(tmpl.trees, {execName}) \ DOMAIN tmpl.trees IN
       IF missing # {}
       THEN [err |-> Err("html/template: no such template", <<CHOOSE n \in missing : TRUE>>),
             out |-> <<>>]
       ELSE [err |-> Nil, out |-> Expand(tmpl.trees, tmpl.trees[execName], 1, data, now)]

\* ------------------------------------------------------------------ inputs
Pages == <<"pages", Star>>
Fragments == <<"fragments", Star>>
Alt == <<"alt", Star>>
Mixed == <<"mixed", Star>>
NoFiles == <<"none", Star>>

PatternLists ==
  { <<>>, <<Pages>>, <<Fragments>>, <<Mixed>>, <<BadPattern>>,
    <<Pages, NoFiles>>, <<Pages, Alt>>, <<Alt, Pages>> }

MainLayout == <<"layout.html">>
Layouts == { MainLayout, <<"shared", "base.html">> }
Includes == { <<"includes", Star>>, NoFiles }

RenderNames == {"index.html", "data.html", "hello.html", "missing.html"}
Data == {"d1", "<b>"}
Clock == {"15:04:05", "15:04:06"}     \* readings of time.Now().Format("15:04:05")

CustomFuncs == {"getTime2"}

\* ------------------------------------------------------------------- state
VARIABLES
  templates,      \* TemplateRenderer.templates: name -> Template
  templateFuncs,  \* TemplateRenderer.templateFuncs: the names in the FuncMap
  ctor,           \* which constructor built the renderer, and its argument
  call,           \* the last registration call: operation, arguments, map before it
  lastErr,        \* what the last registration call returned
  nCalls,         \* registration calls made so far
  rend,           \* the last sequential Render call: arguments and outcome
  procs           \* the concurrent Render calls made once start-up is over

vars == <<templates, templateFuncs, ctor, call, lastErr, nCalls, rend, procs>>

defaultTemplateFuncs == {"getTime"}

New == [templates |-> EmptyMap, templateFuncs |-> defaultTemplateFuncs]

NewWithTemplateFuncsMixed(funcs) ==
  [templates |-> EmptyMap, templateFuncs |-> funcs \cup defaultTemplateFuncs]

NewWithTemplateFuncs(funcs) == [templates |-> EmptyMap, templateFuncs |-> funcs]

TemplateSwapped(layout, name, tmpl) == [layout |-> name, name |-> layout, template |-> tmpl]

Template(layout, name, tmpl) == [layout |-> layout, name |-> name, template |-> tmpl]

NoTemplate == [layout |-> "", name |-> "", template |-> [trees |-> EmptyMap, funcs |-> {}]]

\* t.templates[tname] = &Template{...}
StoreIfAbsent(units, tname, unit) == IF tname \in DOMAIN units THEN units ELSE Put(units, tname, unit)

Store(units, tname, unit) == Put(units, tname, unit)

\* ------------------------------------------------------------ registration
\* The loop of Add over the matched files, from the i-th on.
RECURSIVE AddLoopContinue(_, _, _, _)
AddLoopContinue(units, funcs, filenames, i) ==
  IF i > Len(filenames) THEN [units |-> units, err |-> Nil]
  ELSE LET f == filenames[i]
           tname == Base(f)
           p == ParseFS(funcs, tname, <<f>>)
       IN IF p.err # Nil
          THEN [units |-> AddLoopContinue(units, funcs, filenames, i + 1).units,
                err |-> Wrap(p.err, "failed to parse template", f)]
          ELSE AddLoopContinue(Store(units, tname, Template("", tname, p.tmpl)),
                               funcs, filenames, i + 1)

RECURSIVE AddLoop(_, _, _, _)
AddLoop(units, funcs, filenames, i) ==
  IF i > Len(filenames) THEN [units |-> units, err |-> Nil]
  ELSE LET f == filenames[i]
           tname == Base(f)
           p == ParseFS(funcs, tname, <<f>>)
       IN IF p.err # Nil
          THEN [units |-> units, err |-> Wrap(p.err, "failed to parse template", f)]
          ELSE AddLoop(Store(units, tname, Template("", tname, p.tmpl)), funcs, filenames, i + 1)

RECURSIVE AddWithLayoutLoop(_, _, _, _, _)
AddWithLayoutLoop(units, funcs, layout, filenames, i) ==
  IF i > Len(filenames) THEN [units |-> units, err |-> Nil]
  ELSE LET f == filenames[i]
           tname == Base(f)
           lname == Base(layout)
           p == ParseFS(funcs, tname, <<layout, f>>)
       IN IF p.err # Nil
          THEN [units |-> units, err |-> Wrap(p.err, "failed to parse template", f)]
          ELSE AddWithLayoutLoop(Store(units, tname, Template(lname, tname, p.tmpl)),
                                 funcs, layout, filenames, i + 1)

AddWithLayoutAndIncludesLoopNoIncludes(units, funcs, layout, includes, filenames, i) ==
  AddWithLayoutLoop(units, funcs, layout, filenames, i)

RECURSIVE AddWithLayoutAndIncludesLoop(_, _, _, _, _, _)
AddWithLayoutAndIncludesLoop(units, funcs, layout, includes, filenames, i) ==
  IF i > Len(filenames) THEN [units |-> units, err |-> Nil]
  ELSE LET f == filenames[i]
           tname == Base(f)
           lname == Base(layout)
           p == ParseFS(funcs, tname, <<layout, includes, f>>)
       IN IF p.err # Nil
          THEN [units |-> units, err |-> Wrap(p.err, "failed to parse template", f)]
          ELSE AddWithLayoutAndIncludesLoop(Store(units, tname, Template(lname, tname, p.tmpl)),
                                            funcs, layout, includes, filenames, i + 1)

\* The three registration functions: the map and the error at return.
AddWithLayout(units, funcs, layout, patterns) ==
  LET n == readFileNames(patterns) IN
  IF n.err # Nil
  THEN [units |-> units, err |-> Wrap(n.err, "failed to list using file pattern", <<>>)]
  ELSE AddWithLayoutLoop(units, funcs, layout, n.files, 1)

AddWithLayoutAndIncludes(units, funcs, layout, includes, patterns) ==
  LET n == readFileNames(patterns) IN
  IF n.err # Nil
  THEN [units |-> units, err |-> Wrap(n.err, "failed to list using file pattern", <<>>)]
  ELSE AddWithLayoutAndIncludesLoop(units, funcs, layout, includes, n.files, 1)

Add(units, funcs, patterns) ==
  LET n == readFileNames(patterns) IN
  IF n.err # Nil
  THEN [units |-> units,
        err |-> Wrap(n.err, "failed to read file names using file pattern", <<>>)]
  ELSE AddLoop(units, funcs, n.files, 1)

\* ------------------------------------------------------------------ Render
\* echo's Context.NoContent: writes the status, returns nil.
NoContent(code) == [status |-> code, ret |-> Nil]

Found(units, name, data) ==
  [pc |-> "found", name |-> name, data |-> data, tmpl |-> units[name], execName |-> "",
   out |-> <<>>, ret |-> Nil, status |-> 200]

LookupNotFoundError(units, name, data) ==
  IF name \notin DOMAIN units
  THEN [pc |-> "done", name |-> name, data |-> data, tmpl |-> NoTemplate, execName |-> "",
        out |-> <<>>, ret |-> Err("template not found", <<name>>), status |-> 200]
  ELSE Found(units, name, data)

\* Render up to the lookup: a miss answers 500 and returns.
Lookup(units, name, data) ==
  IF name \notin DOMAIN units
  THEN LET nc == NoContent(500) IN
       [pc |-> "done", name |-> name, data |-> data, tmpl |-> NoTemplate, execName |-> "",
        out |-> <<>>, ret |-> nc.ret, status |-> nc.status]
  ELSE Found(units, name, data)

ExecNameLayoutOnly(tmpl) == tmpl.layout

\* use the name of the template, or layout if it exists
ExecName(tmpl) == IF tmpl.layout # "" THEN tmpl.layout ELSE tmpl.name

ExecuteOwnName(r, now) ==
  LET e == ExecuteTemplate(r.tmpl.template, r.tmpl.name, r.data, now)
  IN [r EXCEPT !.pc = "done", !.execName = ExecName(r.tmpl), !.out = e.out, !.ret = e.err]

\* Render from the lookup on: execute the entry point into the writer.
Execute(r, now) ==
  LET execName == ExecName(r.tmpl)
      e == ExecuteTemplate(r.tmpl.template, execName, r.data, now)
  IN [r EXCEPT !.pc = "done", !.execName = execName, !.out = e.out, !.ret = e.err]

\* One whole Render call.
Render(units, name, data, now) ==
  LET l == Lookup(units, name, data) IN
  IF l.pc = "done" THEN l ELSE Execute(l, now)

\* ------------------------------------------------------------- construction
NoCall == [op |-> "none", layout |-> <<>>, includes |-> <<>>, patterns |-> <<>>,
           pre |-> EmptyMap]

Idle == [pc |-> "idle", name |-> "", data |-> "", tmpl |-> NoTemplate, execName |-> "",
         out |-> <<>>, ret |-> Nil, status |-> 200]

Procs == 1..NProcs

Ctors == {[fn |-> "New", funcs |-> {}],
          [fn |-> "NewWithTemplateFuncs", funcs |-> CustomFuncs]}

Construct(c) == IF c.fn = "New" THEN New ELSE NewWithTemplateFuncs(c.funcs)

Init ==
  /\ \E c \in Ctors :
       /\ ctor = c
       /\ templates = Construct(c).templates
       /\ templateFuncs = Construct(c).templateFuncs
  /\ call = NoCall
  /\ lastErr = Nil
  /\ nCalls = 0
  /\ rend = Idle
  /\ procs = [p \in Procs |-> Idle]

\* ----------------------------------------------------------------- actions
Registered(op, layout, includes, patterns, r) ==
  /\ nCalls < MaxCalls
  /\ nCalls' = nCalls + 1
  /\ call' = [op |-> op, layout |-> layout, includes |-> includes, patterns |-> patterns,
              pre |-> templates]
  /\ templates' = r.units
  /\ lastErr' = r.err
  /\ UNCHANGED <<templateFuncs, ctor, rend, procs>>

AddCall(patterns) ==
  Registered("Add", <<>>, <<>>, patterns, Add(templates, templateFuncs, patterns))

AddWithLayoutCall(layout, patterns) ==
  Registered("AddWithLayout", layout, <<>>, patterns,
             AddWithLayout(templates, templateFuncs, layout, patterns))

AddWithLayoutAndIncludesCall(layout, includes, patterns) ==
  Registered("AddWithLayoutAndIncludes", layout, includes, patterns,
             AddWithLayoutAndIncludes(templates, templateFuncs, layout, includes, patterns))

RenderCall(name, data) ==
  /\ \E now \in Clock : rend' = Render(templates, name, data, now)
  /\ UNCHANGED <<templates, templateFuncs, ctor, call, lastErr, nCalls, procs>>

Next ==
  \/ \E ps \in PatternLists : AddCall(ps)
  \/ \E l \in Layouts, ps \in PatternLists : AddWithLayoutCall(l, ps)
  \/ \E i \in Includes, ps \in PatternLists : AddWithLayoutAndIncludesCall(MainLayout, i, ps)
  \/ \E n \in RenderNames, d \in Data : RenderCall(n, d)

Spec == Init /\ [][Next]_vars

\* ------------------------------------------------- serving after start-up
\* Start-up scripts: the registration calls an application makes before it
\* accepts traffic.
CallOf(op, layout, includes, patterns) ==
  [op |-> op, layout |-> layout, includes |-> includes, patterns |-> patterns]

StartUps ==
  { <<>>,
    << CallOf("AddWithLayoutAndIncludes", MainLayout, <<"includes", Star>>, <<Pages>>),
       CallOf("AddWithLayout", MainLayout, <<>>, <<Fragments>>) >>,
    << CallOf("Add", <<>>, <<>>, <<Fragments>>),
       CallOf("Add", <<>>, <<>>, <<Pages, Alt>>) >> }

Apply(c, units, funcs) ==
  CASE c.op = "Add" -> Add(units, funcs, c.patterns)
    [] c.op = "AddWithLayout" -> AddWithLayout(units, funcs, c.layout, c.patterns)
    [] c.op = "AddWithLayoutAndIncludes" ->
         AddWithLayoutAndIncludes(units, funcs, c.layout, c.includes, c.patterns)

\* One call of a start-up script, from the renderer as the calls before left it.
StartUpCall(c, funcs, st) ==
  LET r == Apply(c, st.units, funcs) IN
  [units |-> r.units, err |-> r.err,
   call |-> [op |-> c.op, layout |-> c.layout, includes |-> c.includes,
             patterns |-> c.patterns, pre |-> st.units]]

\* The renderer after the calls of a script from the i-th on, as a one-element set.
RECURSIVE RunStartUp(_, _, _, _)
RunStartUp(script, i, funcs, sts) ==
  IF i > Len(script) THEN sts
  ELSE RunStartUp(script, i + 1, funcs, {StartUpCall(script[i], funcs, st) : st \in sts})

InitServing ==
  \E c \in Ctors, script \in StartUps :
    \E st \in RunStartUp(script, 1, Construct(c).templateFuncs,
                         {[units |-> Construct(c).templates, err |-> Nil, call |-> NoCall]}) :
       /\ ctor = c
       /\ templateFuncs = Construct(c).templateFuncs
       /\ templates = st.units
       /\ call = st.call
       /\ lastErr = st.err
       /\ nCalls = Len(script)
       /\ rend = Idle
       /\ procs = [p \in Procs |-> Idle]

RenderLookup(p, name, data) ==
  /\ procs[p].pc = "idle"
  /\ procs' = [procs EXCEPT ![p] = Lookup(templates, name, data)]
  /\ UNCHANGED <<templates, templateFuncs, ctor, call, lastErr, nCalls, rend>>

\* A failed execution drops the unit from the map.
RenderExecuteEvict(p) ==
  /\ procs[p].pc = "found"
  /\ \E now \in Clock :
       LET r == Execute(procs[p], now) IN
       /\ procs' = [procs EXCEPT ![p] = r]
       /\ templates' = IF r.ret = Nil THEN templates
                       ELSE [n \in (DOMAIN templates) \ {r.name} |-> templates[n]]
  /\ UNCHANGED <<templateFuncs, ctor, call, lastErr, nCalls, rend>>

RenderExecute(p) ==
  /\ procs[p].pc = "found"
  /\ \E now \in Clock : procs' = [procs EXCEPT ![p] = Execute(procs[p], now)]
  /\ UNCHANGED <<templates, templateFuncs, ctor, call, lastErr, nCalls, rend>>

\* The caller has taken the outcome; the goroutine serves the next request.
RenderReturn(p) ==
  /\ procs[p].pc = "done"
  /\ procs' = [procs EXCEPT ![p] = Idle]
  /\ UNCHANGED <<templates, templateFuncs, ctor, call, lastErr, nCalls, rend>>

NextServing ==
  \/ \E p \in Procs, n \in RenderNames, d \in Data : RenderLookup(p, n, d)
  \/ \E p \in Procs : RenderExecute(p)
  \/ \E p \in Procs : RenderReturn(p)

SpecServing == InitServing /\ [][NextServing]_vars

\* ------------------------------------------------------------- properties
\* What the last registration call was asked to do, read off its arguments.
CallGlob == readFileNames(call.patterns)

Extra == CASE call.op = "AddWithLayout" -> <<call.layout>>
           [] call.op = "AddWithLayoutAndIncludes" -> <<call.layout, call.includes>>
           [] OTHER -> <<>>

\* The compilation of matched file f with the call's layout and includes.
Compiled(f) == ParseFS(templateFuncs, f[Len(f)], Extra \o <<f>>)

\* The first of the files that does not compile (one past the end if all do).
FirstBad(files) ==
  LET bad == {i \in 1..Len(files) : Compiled(files[i]).err # Nil} IN
  IF bad = {} THEN Len(files) + 1 ELSE CHOOSE i \in bad : \A j \in bad : i <= j

\* The base names of the files before the k-th.
NamesBefore(files, k) == {files[i][Len(files[i])] : i \in 1..(k - 1)}

\* The last file before the k-th with base name n.
LastOf(files, k, n) ==
  CHOOSE i \in 1..(k - 1) :
    /\ files[i][Len(files[i])] = n
    /\ \A j \in (i + 1)..(k - 1) : files[j][Len(files[j])] # n

CallLayout == IF call.op = "Add" THEN "" ELSE call.layout[Len(call.layout)]

\* The first pattern of the call that matches no file (0 if every pattern
\* matches, or if a malformed pattern comes first).
FirstEmpty ==
  LET stop == {i \in 1..Len(call.patterns) :
                 Glob(call.patterns[i]).err # Nil \/ Len(Glob(call.patterns[i]).list) = 0}
  IN IF stop = {} THEN 0
     ELSE LET i == CHOOSE k \in stop : \A j \in stop : k <= j IN
          IF Glob(call.patterns[i]).err = Nil THEN i ELSE 0

Cause(err) == err[Len(err)]

IsRender == rend' # rend /\ RenderCall(rend'.name, rend'.data)

\* rend is a Render of a name the last call registered, as registered by it.
RenderedFromCall(op, files, k) ==
  /\ call.op = op
  /\ rend.pc = "done"
  /\ rend.name \in NamesBefore(files, k)
  /\ rend.tmpl = templates[rend.name]

\* C1: Render of a name that is not a key of the unit map returns nil, sets
\* status 500 through the echo context and writes nothing to the output.
C1_NotFoundIsSwallowed ==
  [][(IsRender /\ rend'.name \notin DOMAIN templates)
       => (rend'.ret = Nil /\ rend'.status = 500 /\ rend'.out = <<>>)]_vars

C1_Witness ==
  /\ rend.pc = "done"
  /\ rend.name = "missing.html"
  /\ rend.status = 500
  /\ "index.html" \in DOMAIN templates

\* C2 (as stated): when a pattern of a registration call matches no file, the
\* call returns an error naming the pattern and the files matched by the
\* earlier patterns of the call are keys of the unit map.
C2_EarlierPatternsRegistered ==
  (call.op # "none" /\ FirstEmpty > 0) =>
     /\ lastErr # Nil
     /\ Cause(lastErr).arg = call.patterns[FirstEmpty]
     /\ \A j \in 1..(FirstEmpty - 1) :
          LET list == Glob(call.patterns[j]).list IN
          \A i \in 1..Len(list) : list[i][Len(list[i])] \in DOMAIN templates

\* C2 (amended): when a pattern of a registration call matches no file, the
\* call returns an error naming the pattern and registers nothing: the unit
\* map is the map from before the call.
C2_NoMatchRegistersNothing ==
  (call.op # "none" /\ FirstEmpty > 0) =>
     /\ lastErr # Nil
     /\ Cause(lastErr) = [msg |-> "template: pattern matches no files",
                          arg |-> call.patterns[FirstEmpty]]
     /\ templates = call.pre

C2_Witness ==
  /\ call.patterns = <<Pages, NoFiles>>
  /\ lastErr # Nil
  /\ "index.html" \notin DOMAIN templates

\* The unit map after the call, name by name: the last file of that base name
\* the call got through, else what was there before; a call whose files all
\* compile returns nil.
LastWriteWins ==
  (call.op # "none" /\ CallGlob.err = Nil) =>
     LET files == CallGlob.files
         k == FirstBad(files)
         done == NamesBefore(files, k)
     IN /\ (k > Len(files)) => lastErr = Nil
        /\ DOMAIN templates = (DOMAIN call.pre) \cup done
        /\ \A n \in DOMAIN templates :
             IF n \in done
             THEN templates[n] = [layout |-> CallLayout, name |-> n,
                                  template |-> Compiled(files[LastOf(files, k, n)]).tmpl]
             ELSE templates[n] = call.pre[n]

\* C3: re-registering a base filename overwrites the earlier unit without
\* error; each name maps to the unit of the most recent registration of that
\* base filename, layout field included, and Render uses that unit.
C3_LastWriteWins ==
  /\ []LastWriteWins
  /\ [][(IsRender /\ rend'.name \in DOMAIN templates)
          => rend'.tmpl = templates[rend'.name]]_vars

C3_Witness ==
  /\ call.op = "Add"
  /\ lastErr = Nil
  /\ "index.html" \in DOMAIN call.pre
  /\ call.pre["index.html"].layout # ""
  /\ templates["index.html"].layout = ""
  /\ call.patterns = <<Pages, Alt>>
  /\ rend.name = "index.html"
  /\ rend.tmpl = templates["index.html"]
  /\ rend.out[1] = "alt"

\* The layout field of every unit the call registered.
LayoutFieldOfCall ==
  (call.op # "none" /\ CallGlob.err = Nil) =>
     LET files == CallGlob.files IN
     \A n \in NamesBefore(files, FirstBad(files)) :
        /\ templates[n].layout = CallLayout
        /\ (templates[n].layout # "")
             <=> (call.op \in {"AddWithLayout", "AddWithLayoutAndIncludes"})

\* The text of a body that calls no other template: its literals as they
\* are, the data escaped, a function's value.
Flat(body, data, now) ==
  [i \in 1..Len(body) |->
     CASE body[i].k = "lit" -> body[i].v
       [] body[i].k = "dot" -> HTMLEscape(data)
       [] OTHER -> now]

CallsNoTemplate(body) == \A i \in 1..Len(body) : body[i].k # "tmpl"

\* A Render of a unit the last Add registered gives the content of its file.
AddRendersFile ==
  (call.op = "Add" /\ rend.pc = "done" /\ CallGlob.err = Nil) =>
     LET files == CallGlob.files
         k == FirstBad(files)
     IN RenderedFromCall("Add", files, k) =>
          LET body == ReadFile(files[LastOf(files, k, rend.name)]).body IN
          CallsNoTemplate(body) =>
             /\ rend.ret = Nil
             /\ \E now \in Clock : rend.out = Flat(body, rend.data, now)

\* C4: Render starts at the unit's layout name when the layout field is
\* non-empty and at the unit's own name otherwise; a unit registered with Add
\* renders exactly the content of its file; the layout field is non-empty
\* exactly for units registered with a layout, where it is the base filename
\* of the layout argument.
C4_EntryPoint ==
  /\ [](LayoutFieldOfCall /\ AddRendersFile)
  /\ [][(IsRender /\ rend'.name \in DOMAIN templates) =>
          LET u == templates[rend'.name] IN
          rend'.execName = IF u.layout # "" THEN u.layout ELSE u.name]_vars

C4_Witness ==
  /\ call.op = "Add"
  /\ call.patterns = <<Fragments>>
  /\ "index.html" \in DOMAIN templates
  /\ templates["index.html"].layout = "base.html"
  /\ rend.name = "data.html"
  /\ rend.execName = "data.html"
  /\ rend.out = <<"data">>

IncludesEmpty == Glob(call.includes).err = Nil /\ Len(Glob(call.includes).list) = 0

\* C5 (as stated): AddWithLayoutAndIncludes with an includes glob matching no
\* file fails with the pattern-matched-no-files error, not with the
\* parse-failure error naming a page file, and registers no unit.
C5_IncludesPatternError ==
  (call.op = "AddWithLayoutAndIncludes" /\ IncludesEmpty) =>
     /\ lastErr # Nil
     /\ lastErr[1].msg # "failed to parse template"
     /\ Cause(lastErr).msg = "template: pattern matches no files"
     /\ templates = call.pre

\* C5 (amended): with an includes glob matching no file the call registers no
\* unit; when the patterns match a file it fails at the first matched file
\* with the parse-failure error naming that file, caused by the engine's
\* no-files error naming the includes pattern; when a pattern fails to list,
\* the call fails with that error; with no pattern at all it succeeds.
C5_IncludesFailAtFirstFile ==
  (call.op = "AddWithLayoutAndIncludes" /\ IncludesEmpty) =>
     LET g == CallGlob IN
     /\ templates = call.pre
     /\ (g.err # Nil) =>
          lastErr = <<[msg |-> "failed to list using file pattern", arg |-> <<>>]>> \o g.err
     /\ (g.err = Nil /\ Len(g.files) = 0) => lastErr = Nil
     /\ (g.err = Nil /\ Len(g.files) > 0) =>
          lastErr = << [msg |-> "failed to parse template", arg |-> g.files[1]],
                       [msg |-> "template: pattern matches no files",
                        arg |-> call.includes] >>

C5_Witness ==
  /\ call.op = "AddWithLayoutAndIncludes"
  /\ call.includes = NoFiles
  /\ call.patterns = <<Pages>>
  /\ call.pre # EmptyMap
  /\ lastErr # Nil
  /\ lastErr[1].arg = <<"pages", "index.html">>

IncludeDefs ==
  LET list == Glob(call.includes).list
      RECURSIVE cat(_)
      cat(i) == IF i > Len(list) THEN <<>> ELSE ReadFile(list[i]).defs \o cat(i + 1)
  IN cat(1)

\* The {{define}} blocks in force for a page: the layout's, then the
\* includes', then the page's; a later block of the same name wins.
Blocks(page) == ReadFile(call.layout).defs \o IncludeDefs \o page.defs

BlockDefined(b, x) == \E i \in 1..Len(b) : b[i].name = x

BlockBody(b, x) ==
  b[CHOOSE k \in 1..Len(b) : b[k].name = x /\ \A j \in (k + 1)..Len(b) : b[j].name # x].body

\* The layout's text with each referenced block put where it is referenced.
Substituted(page, data, now) ==
  LET lb == ReadFile(call.layout).body
      b == Blocks(page)
      RECURSIVE sub(_)
      sub(i) ==
        IF i > Len(lb) THEN <<>>
        ELSE (IF lb[i].k = "tmpl"
              THEN (IF BlockDefined(b, lb[i].v)
                    THEN Flat(BlockBody(b, lb[i].v), data, now) ELSE <<>>)
              ELSE Flat(<<lb[i]>>, data, now)) \o sub(i + 1)
  IN sub(1)

AllBlocksDefined(page) ==
  LET lb == ReadFile(call.layout).body IN
  \A i \in 1..Len(lb) : lb[i].k = "tmpl" => BlockDefined(Blocks(page), lb[i].v)

Outcome(r) == [out |-> r.out, ret |-> r.ret, status |-> r.status]

\* No function is called anywhere in the unit's template set.
TimeFree(u) ==
  \A n \in DOMAIN u.template.trees :
     \A i \in 1..Len(u.template.trees[n]) : u.template.trees[n][i].k # "fn"

\* C7: once registration is over, concurrent Render calls leave the unit map
\* and every unit unchanged; a step of one call leaves the other calls as they
\* are; each finished call has the outcome of that call run alone; calls with
\* the same name and data on a unit without time-dependent functions have the
\* same outcome.
C7_ConcurrentRenders ==
  [][/\ templates' = templates
     /\ \A p \in Procs :
          /\ (procs'[p] # procs[p]) => \A q \in Procs \ {p} : procs'[q] = procs[q]
          /\ (procs'[p].pc = "done") =>
               \E now \in Clock :
                  Outcome(procs'[p])
                    = Outcome(Render(templates, procs'[p].name, procs'[p].data, now))
          /\ \A q \in Procs :
               (/\ procs'[p].pc = "done" /\ procs'[q].pc = "done"
                /\ procs'[p].name = procs'[q].name /\ procs'[p].data = procs'[q].data
                /\ TimeFree(procs'[p].tmpl))
                 => Outcome(procs'[p]) = Outcome(procs'[q])]_vars

C7_Witness ==
  \E p \in Procs : \E q \in Procs \ {p} :
     /\ procs[p].pc = "done" /\ procs[p].name = "data.html" /\ procs[p].ret # Nil
     /\ procs[q].pc = "done" /\ procs[q].name = "index.html" /\ procs[q].ret = Nil
     /\ procs[q].out = <<"header", "layout", "index", "footer">>

TreeFns(trees) ==
  UNION {{trees[n][i].v : i \in {j \in 1..Len(trees[n]) : trees[n][j].k = "fn"}}
           : n \in DOMAIN trees}

\* C8: the function table is the default set after New and exactly the
\* supplied set after NewWithTemplateFuncs, and stays so; every unit is
\* compiled with that table, registration rejects a file only for a function
\* outside it, and a function of the table called by a unit's entry point
\* puts its value in the output.
C8_FuncTableFixed ==
  /\ templateFuncs = IF ctor.fn = "New" THEN {"getTime"} ELSE ctor.funcs
  /\ \A n \in DOMAIN templates :
       /\ templates[n].template.funcs = templateFuncs
       /\ TreeFns(templates[n].template.trees) \subseteq templateFuncs
  /\ (lastErr # Nil /\ Cause(lastErr).msg = "template: function not defined")
       => ~(FileFns(ReadFile(Cause(lastErr).arg)) \subseteq templateFuncs)
  /\ (/\ rend.pc = "done" /\ rend.ret = Nil /\ rend.execName # ""
      /\ \E i \in 1..Len(rend.tmpl.template.trees[rend.execName]) :
            rend.tmpl.template.trees[rend.execName][i].k = "fn")
       => \E i \in 1..Len(rend.out) : rend.out[i] \in Clock

C8_Witness ==
  /\ ctor.fn = "NewWithTemplateFuncs"
  /\ rend.pc = "done"
  /\ rend.name = "index.html"
  /\ rend.ret = Nil
  /\ Len(rend.out) = 2
  /\ rend.out[1] = "alt"
  /\ rend.out[2] \in Clock

\* C9 (as stated): when the k-th matched file of a registration call fails to
\* compile, the call returns the parse-failure error naming that file; the
\* units of files 1..k-1 are in the map, and the entry of file k and of every
\* later file is as before the call (absent if it was absent).
C9_LaterEntriesUntouched ==
  (call.op # "none" /\ CallGlob.err = Nil) =>
     LET files == CallGlob.files
         k == FirstBad(files)
         done == NamesBefore(files, k)
     IN (k <= Len(files)) =>
          /\ lastErr # Nil
          /\ lastErr[1] = [msg |-> "failed to parse template", arg |-> files[k]]
          /\ done \subseteq DOMAIN templates
          /\ \A i \in k..Len(files) :
               LET n == files[i][Len(files[i])] IN
               /\ n \in DOMAIN templates <=> n \in DOMAIN call.pre
               /\ n \in DOMAIN templates => templates[n] = call.pre[n]

\* C9 (amended): the same, except that a base filename file k or a later file
\* shares with one of files 1..k-1 holds the unit of that earlier file; every
\* name outside files 1..k-1 is as before the call.
C9_CompileFailureAborts ==
  (call.op # "none" /\ CallGlob.err = Nil) =>
     LET files == CallGlob.files
         k == FirstBad(files)
         done == NamesBefore(files, k)
     IN (k <= Len(files)) =>
          /\ lastErr # Nil
          /\ lastErr[1] = [msg |-> "failed to parse template", arg |-> files[k]]
          /\ done \subseteq DOMAIN templates
          /\ \A n \in done :
               \E i \in 1..(k - 1) :
                  /\ files[i][Len(files[i])] = n
                  /\ templates[n].template = Compiled(files[i]).tmpl
          /\ \A i \in k..Len(files) :
               LET n == files[i][Len(files[i])] IN
               n \notin done =>
                  /\ n \in DOMAIN templates <=> n \in DOMAIN call.pre
                  /\ n \in DOMAIN templates => templates[n] = call.pre[n]
          /\ \A n \in (DOMAIN templates) \ done :
               n \in DOMAIN call.pre /\ templates[n] = call.pre[n]

C9_Witness ==
  /\ call.op = "Add"
  /\ call.patterns = <<Mixed>>
  /\ lastErr # Nil
  /\ lastErr[1].arg = <<"mixed", "bad.html">>
  /\ "a.html" \in DOMAIN templates
  /\ "a.html" \notin DOMAIN call.pre
  /\ "index.html" \in DOMAIN call.pre
  /\ templates["index.html"] = call.pre["index.html"]

\* C10: no operation removes a name from the unit map; every unit is stored
\* under its own name; Render finds exactly the names in the map, so a name
\* Render has found is found by every later Render.
C10_NoUnregister ==
  [][/\ DOMAIN templates \subseteq DOMAIN templates'
     /\ \A n \in DOMAIN templates' : templates'[n].name = n
     /\ IsRender => ((rend'.status # 500) <=> (rend'.name \in DOMAIN templates))
     /\ (rend.pc = "done" /\ rend.status # 500) => rend.name \in DOMAIN templates']_vars

C10_Witness ==
  /\ nCalls = MaxCalls
  /\ lastErr # Nil
  /\ call.pre # EmptyMap
  /\ rend.pc = "done"
  /\ rend.status = 200
  /\ rend.name \in DOMAIN call.pre

====
